---- MODULE Spec2Model ----
(***************************************************************************)
(* A model of freshsalessdk.py: the generic request wrapper, the paginated *)
(* view generator, the per-resource normalizers and the per-resource       *)
(* client operations (forget, bulk_delete, ...).                           *)
(*                                                                         *)
(* Python values.  A mapping (dict) with string keys is a TLA+ function    *)
(* whose domain is its key set; a list is a sequence.  Where values of     *)
(* several Python types meet in one place (query parameters, the limit     *)
(* argument) they are tagged: PyInt(3), PyBool(TRUE), PyStr("x"), None.    *)
(***************************************************************************)
EXTENDS Integers, Sequences, FiniteSets, TLC

VARIABLES
    kind,            \* self.resource_type of the client under test
    default_params,  \* self.default_params of the client
    \* ---- the paginated generator (_get_all_generator) ----
    view,            \* the server's view: [T, pages, siblings]
    limit,           \* the limit argument: None or PyInt(n)
    pc,              \* position of the generator's frame
    page,            \* local page
    num,             \* local num
    total_pages,     \* local total_pages
    res,             \* local res (the envelope of the page being iterated)
    idx,             \* number of objs of res already taken by the for loop
    yielded,         \* the records handed to the caller, in order
    resumes,         \* how many times the caller has called next()
    abandoned,       \* the caller has dropped the generator
    inflight,        \* HTTP requests issued and not yet answered
    \* ---- the HTTP collaborator ----
    requests,        \* every request handed to the transport, in order
    responses,       \* the status of every answer received, in order
    \* ---- a single normalize(obj, container) call ----
    nobj,            \* obj (mutated in place)
    ncontainer,      \* container (its appointments are mutated in place)
    nstate,          \* "ready" | "returned" | the exception raised
    \* ---- a single client operation (forget, bulk_delete, ...) ----
    call,            \* the operation called and its arguments
    outcome          \* how the call ended: [how, value]

vars == <<kind, default_params, view, limit, pc, page, num, total_pages, res,
          idx, yielded, resumes, abandoned, inflight, requests, responses, nobj,
          ncontainer, nstate, call, outcome>>

pagVars == <<view, limit, pc, page, num, total_pages, res, idx, yielded,
             resumes, abandoned, inflight>>
normVars == <<nobj, ncontainer, nstate>>
opVars == <<call, outcome>>

(***************************************************************************)
(* Bounds of the model.                                                    *)
(***************************************************************************)
MaxPages == 3        \* largest total_pages a view reports
MaxPerPage == 3      \* most records the server puts on one page
MaxLimit == 5        \* largest limit argument tried
MaxSib == 2          \* longest sibling collection of an envelope

(***************************************************************************)
(* Python values.                                                          *)
(***************************************************************************)
None == [type |-> "NoneType"]
PyInt(n) == [type |-> "int", v |-> n]
PyBool(b) == [type |-> "bool", v |-> b]
PyStr(s) == [type |-> "str", v |-> s]

\* Python truthiness of a tagged value (`if limit`, `if not params`).
Truthy(x) ==
    CASE x.type = "NoneType" -> FALSE
      [] x.type = "int" -> x.v # 0
      [] x.type = "bool" -> x.v
      [] x.type = "str" -> x.v # ""
      [] OTHER -> TRUE

\* the empty dict
EmptyDict == [k \in {} |-> None]

\* d[k] = v on a dict
SetItem(d, k, v) == (k :> v) @@ d

Min(S) == CHOOSE m \in S : \A n \in S : m <= n
Max(a, b) == IF a >= b THEN a ELSE b

RECURSIVE Concat(_)
Concat(ps) == IF ps = <<>> THEN <<>> ELSE Head(ps) \o Concat(Tail(ps))

(***************************************************************************)
(* The resource clients the facade builds (FreshsalesSDK.__init__), each   *)
(* named by its resource_type.                                             *)
(***************************************************************************)
Kinds == {"contacts", "sales_accounts", "deals", "leads",
          "sales_activities", "tasks", "notes"}

NormalizingKinds == {"contacts", "sales_accounts", "deals", "leads"}

\* APIBase.__init__: the singular defaults to the plural minus its last letter
resource_type_singular(k) ==
    CASE k = "contacts" -> "contact"
      [] k = "sales_accounts" -> "sales_account"
      [] k = "deals" -> "deal"
      [] k = "leads" -> "lead"
      [] k = "sales_activities" -> "sales_activity"
      [] k = "tasks" -> "task"
      [] k = "notes" -> "note"

\* the default_params each subclass hands to APIBase.__init__
ClassDefaultParams(k) ==
    CASE k = "contacts" ->
            [include |-> PyStr("sales_accounts,appointments,owner,contact_status"),
             sort |-> PyStr("updated_at"), sort_type |-> PyStr("desc")]
      [] k = "sales_accounts" ->
            [include |-> PyStr("appointments,owner,industry_type"),
             sort |-> PyStr("updated_at"), sort_type |-> PyStr("desc")]
      [] k = "deals" ->
            [include |-> PyStr("sales_account,appointments,owner,deal_stage"),
             sort |-> PyStr("updated_at"), sort_type |-> PyStr("desc")]
      [] k = "leads" ->
            [include |-> PyStr("sales_account,appointments,owner,lead_stage"),
             sort |-> PyStr("updated_at"), sort_type |-> PyStr("desc")]
      [] OTHER -> EmptyDict  \* Tasks, Notes, SalesActivities; Configuration has none

(***************************************************************************)
(* APIBase._find_obj_by_id: the first element of objs whose id equals id,  *)
(* None when there is none.                                                *)
(***************************************************************************)
FindIndex(objs, id) ==
    LET hits == {i \in 1..Len(objs) : objs[i].id = id}
    IN  IF hits = {} THEN 0 ELSE Min(hits)

find_obj_by_id(objs, id) ==
    IF FindIndex(objs, id) = 0 THEN None ELSE objs[FindIndex(objs, id)]

\* `xs = []; if key in container: xs = container[key]`
Sibling(container, key) ==
    IF key \in DOMAIN container THEN container[key] ELSE <<>>

\* `if id_field in obj: obj[field] = _find_obj_by_id(objs, obj[id_field])`
Resolve(obj, id_field, field, objs) ==
    IF id_field \in DOMAIN obj
    THEN SetItem(obj, field, find_obj_by_id(objs, obj[id_field]))
    ELSE obj

\* what a normalize call leaves behind
NormResult(exc, obj, container) ==
    [raised |-> exc, obj |-> obj, container |-> container]

(***************************************************************************)
(* Contacts._normalize.  The appointment loop reads ap['outcome_id'] of    *)
(* whatever _find_obj_by_id returned and writes ap['outcome'] into the     *)
(* appointment object of the container itself.                             *)
(***************************************************************************)
RECURSIVE ResolveAppointments(_, _, _, _)
ResolveAppointments(ids, appointments, outcomes, acc) ==
    IF ids = <<>>
    THEN [raised |-> "none", appointments |-> appointments, res |-> acc]
    ELSE LET i == FindIndex(appointments, Head(ids))
         IN  IF i = 0
             THEN \* ap is None: None['outcome_id']
                  [raised |-> "TypeError", appointments |-> appointments,
                   res |-> acc]
             ELSE IF "outcome_id" \notin DOMAIN appointments[i]
             THEN [raised |-> "KeyError", appointments |-> appointments,
                   res |-> acc]
             ELSE LET ap == SetItem(appointments[i], "outcome",
                               find_obj_by_id(outcomes,
                                              appointments[i].outcome_id))
                  IN  ResolveAppointments(Tail(ids),
                          [appointments EXCEPT ![i] = ap], outcomes,
                          Append(acc, ap))

Contacts_normalize(obj, container) ==
    LET users == Sibling(container, "users")
        contact_statuses == Sibling(container, "contact_status")
        appointments == Sibling(container, "appointments")
        outcomes == Sibling(container, "outcomes")
        o1 == Resolve(obj, "owner_id", "owner", users)
        o2 == Resolve(o1, "contact_status_id", "contact_status",
                      contact_statuses)
    IN  IF "appointment_ids" \notin DOMAIN o2
        THEN NormResult("none", o2, container)
        ELSE LET r == ResolveAppointments(o2.appointment_ids, appointments,
                                          outcomes, <<>>)
                 c2 == IF "appointments" \in DOMAIN container
                       THEN [container EXCEPT !.appointments = r.appointments]
                       ELSE container
             IN  IF r.raised # "none"
                 THEN NormResult(r.raised, o2, c2)
                 ELSE NormResult("none", SetItem(o2, "appointments", r.res), c2)

(***************************************************************************)
(* Accounts._normalize                                                     *)
(***************************************************************************)
Accounts_normalize(obj, container) ==
    LET users == Sibling(container, "users")
        o1 == Resolve(obj, "owner_id", "owner", users)
        industry_types == Sibling(container, "industry_types")
        o2 == Resolve(o1, "industry_type_id", "industry_type", industry_types)
    IN  NormResult("none", o2, container)

(***************************************************************************)
(* Deals._normalize                                                        *)
(***************************************************************************)
Deals_normalize(obj, container) ==
    LET users == Sibling(container, "users")
        sales_accounts == Sibling(container, "sales_accounts")
        deal_stages == Sibling(container, "deal_stages")
        o1 == Resolve(obj, "owner_id", "owner", users)
        o2 == Resolve(o1, "sales_account_id", "sales_account", sales_accounts)
        o3 == Resolve(o2, "deal_stage_id", "deal_stage", deal_stages)
    IN  NormResult("none", o3, container)

(***************************************************************************)
(* Leads._normalize.  The empty default is bound to the name lead_stage,   *)
(* so lead_stages is a local that exists only when the container has the   *)
(* key: reading it otherwise raises UnboundLocalError.                     *)
(***************************************************************************)
Leads_normalize(obj, container) ==
    LET users == Sibling(container, "users")
        o1 == Resolve(obj, "owner_id", "owner", users)
    IN  IF "lead_stage_id" \notin DOMAIN o1
        THEN NormResult("none", o1, container)
        ELSE IF "lead_stages" \notin DOMAIN container
        THEN NormResult("UnboundLocalError", o1, container)
        ELSE NormResult("none",
                 Resolve(o1, "lead_stage_id", "lead_stage",
                         container.lead_stages),
                 container)

\* SalesActivities._normalize, Tasks._normalize, Notes._normalize: pass
Noop_normalize(obj, container) == NormResult("none", obj, container)

\* self._normalize(obj=obj, container=res), dispatched on the client's class
normalize(k, obj, container) ==
    CASE k = "contacts" -> Contacts_normalize(obj, container)
      [] k = "sales_accounts" -> Accounts_normalize(obj, container)
      [] k = "deals" -> Deals_normalize(obj, container)
      [] k = "leads" -> Leads_normalize(obj, container)
      [] OTHER -> Noop_normalize(obj, container)

(***************************************************************************)
(* APIBase._request_generic, up to the call of the transport: the request  *)
(* handed to it.  A path is the sequence of its segments.                  *)
(***************************************************************************)
\* the loop without its boolean conversion
ToParam_Unconverted(p) == p

\* `if isinstance(p, bool): p = str(p).lower()`
ToParam(p) ==
    IF p.type = "bool" THEN PyStr(IF p.v THEN "true" ELSE "false") ELSE p

\* api_params: a deep copy of the defaults, overwritten by the loop over params
ApiParams(defaults, params) ==
    LET p == IF params = None THEN EmptyDict ELSE params
        given == {k \in DOMAIN p : p[k] # None}
    IN  [k \in DOMAIN defaults \cup given |->
            IF k \in given THEN ToParam(p[k]) ELSE defaults[k]]

request_generic(defaults, method, path, params, data) ==
    [method |-> method, path |-> path,
     params |-> ApiParams(defaults, params),
     json |-> IF data = None THEN EmptyDict ELSE data]

\* response.raise_for_status(): raises HTTPError for a 4xx or 5xx status
raise_for_status(status) == status >= 400 /\ status < 600

\* the statuses the remote service answers with in this model: success, two
\* outside 2xx on which raise_for_status passes, a client and a server error
Statuses == {199, 200, 304, 404, 500}

\* `json.loads(response.text)`: raises JSONDecodeError on a body that is not
\* JSON, reached only when raise_for_status passed
ResponseError(status, decodable) ==
    IF raise_for_status(status) THEN "HTTPError"
    ELSE IF ~decodable THEN "JSONDecodeError"
    ELSE "none"

(***************************************************************************)
(* The remote service's side of a view listing.  A view reports the same   *)
(* total_pages T on every page and holds pages 1..max(1, T); a page past   *)
(* them is empty.  Record ids are distinct over the whole view.            *)
(***************************************************************************)
PerPage == 100

Scenarios ==
    { [kind |-> "tasks", refs |-> EmptyDict, siblings |-> EmptyDict],
      [kind |-> "contacts", refs |-> [owner_id |-> 7, contact_status_id |-> 5],
       siblings |-> [users |-> <<[id |-> 7, name |-> "A"]>>]],
      [kind |-> "leads", refs |-> [owner_id |-> 7, lead_stage_id |-> 5],
       siblings |-> [users |-> <<[id |-> 7, name |-> "A"]>>]] }

RecordAt(refs, p, j) == SetItem(refs, "id", (p - 1) * (MaxPerPage + 1) + j)

Views(sc) ==
    { [id |-> 1, T |-> T, siblings |-> sc.siblings,
       pages |-> [p \in 1..Max(1, T) |->
                     [j \in 1..sizes[p] |-> RecordAt(sc.refs, p, j)]]] :
        <<T, sizes>> \in
            UNION { {<<t, sz>> : sz \in [1..Max(1, t) -> 0..MaxPerPage]} :
                    t \in 0..MaxPages } }

\* the decoded body of GET /{resource}/view/{id}?page=p
Envelope(k, v, p) ==
    SetItem(SetItem(v.siblings, "meta", [total_pages |-> v.T]), k,
            IF p \in 1..Len(v.pages) THEN v.pages[p] ELSE <<>>)

Limits == {None} \cup {PyInt(n) : n \in 0..MaxLimit}

(***************************************************************************)
(* APIBase._get_all_generator as a generator frame.  pc is where the frame *)
(* stands:                                                                 *)
(*   "created"    the generator object exists, no line has run             *)
(*   "fetch"      at the top of the while loop, about to call _get_generic *)
(*   "wait"       inside the transport call, the request is in flight      *)
(*   "for"        in the for loop, about to take the next obj              *)
(*   "suspended"  at `yield obj`, waiting for the caller's next()          *)
(*   "done"       returned (StopIteration)                                 *)
(*   "raised"     ended by an exception, named in outcome.value            *)
(***************************************************************************)
\* the limit test off by one: `num > limit + 1`
LimitExceeded_LateByOne(lim, n) == Truthy(lim) /\ n > lim.v + 1

\* `if limit and num > limit`
LimitExceeded(lim, n) == Truthy(lim) /\ n > lim.v

\* `if page > total_pages: break`
PastLastPage(pg, total) == pg > total

\* where next() puts the frame
ResumeAt(at) == IF at = "created" THEN "fetch" ELSE "for"

\* the frame after the transport answered with status
AfterResponse(status, decodable) ==
    IF ResponseError(status, decodable) # "none" THEN "raised" ELSE "for"

\* the loop collecting records without yielding each to the caller
AfterYield_NoSuspend == "for"

\* `yield obj`: the frame stops until the caller's next next()
AfterYield == "suspended"

Running == [how |-> "running", value |-> None]

PagInit ==
    /\ \E sc \in Scenarios :
          /\ kind = sc.kind
          /\ view \in Views(sc)
    /\ default_params = ClassDefaultParams(kind)
    /\ limit \in Limits
    /\ pc = "created"
    /\ page = 1
    /\ num = 0
    /\ total_pages = 0
    /\ res = EmptyDict
    /\ idx = 0
    /\ yielded = <<>>
    /\ resumes = 0
    /\ abandoned = FALSE
    /\ inflight = 0
    /\ requests = <<>>
    /\ responses = <<>>
    /\ nobj = EmptyDict
    /\ ncontainer = EmptyDict
    /\ nstate = "unused"
    /\ call = [op |-> "get_all_generator"]
    /\ outcome = Running

\* the caller's next() (list() in get_all calls it until the frame ends)
Resume ==
    /\ pc \in {"created", "suspended"}
    /\ ~abandoned
    /\ pc' = ResumeAt(pc)
    /\ resumes' = resumes + 1
    /\ UNCHANGED <<kind, default_params, view, limit, page, num, total_pages,
                   res, idx, yielded, abandoned, inflight, requests, responses,
                   outcome>>
    /\ UNCHANGED normVars /\ UNCHANGED call

\* the caller drops the generator instead of resuming it
Abandon ==
    /\ pc \in {"created", "suspended"}
    /\ ~abandoned
    /\ abandoned' = TRUE
    /\ UNCHANGED <<kind, default_params, view, limit, pc, page, num,
                   total_pages, res, idx, yielded, resumes, inflight, requests,
                   responses, outcome>>
    /\ UNCHANGED normVars /\ UNCHANGED call

\* lines 155-158 and 106-113: the GET for the current page leaves
Fetch ==
    /\ pc = "fetch"
    /\ requests' = Append(requests,
           request_generic(default_params, "GET",
               <<kind, "view", ToString(view.id)>>,
               [page |-> PyInt(page), per_page |-> PyInt(PerPage)], None))
    /\ inflight' = inflight + 1
    /\ pc' = "wait"
    /\ UNCHANGED <<kind, default_params, view, limit, page, num, total_pages,
                   res, idx, yielded, resumes, abandoned, responses, outcome>>
    /\ UNCHANGED normVars /\ UNCHANGED call

\* lines 115-119 and 159-164: the answer arrives
Respond ==
    /\ pc = "wait"
    /\ \E status \in Statuses, decodable \in BOOLEAN :
          /\ responses' = Append(responses, status)
          /\ pc' = AfterResponse(status, decodable)
          /\ IF AfterResponse(status, decodable) = "raised"
             THEN /\ outcome' = [how |-> "raise",
                                 value |-> PyStr(ResponseError(status,
                                                               decodable))]
                  /\ UNCHANGED <<res, total_pages, idx>>
             ELSE /\ res' = Envelope(kind, view, page)
                  /\ total_pages' = Envelope(kind, view, page).meta.total_pages
                  /\ idx' = 0
                  /\ UNCHANGED outcome
    /\ inflight' = inflight - 1
    /\ UNCHANGED <<kind, default_params, view, limit, page, num, yielded,
                   resumes, abandoned, requests>>
    /\ UNCHANGED normVars /\ UNCHANGED call

\* lines 165-174: one turn of the for loop, or its end and the page advance
ForStep ==
    /\ pc = "for"
    /\ IF idx < Len(res[kind])
       THEN LET r == normalize(kind, res[kind][idx + 1], res)
                res2 == [r.container EXCEPT ![kind][idx + 1] = r.obj]
            IN  /\ res' = res2
                /\ IF r.raised # "none"
                   THEN /\ pc' = "raised"
                        /\ outcome' = [how |-> "raise",
                                       value |-> PyStr(r.raised)]
                        /\ UNCHANGED <<num, yielded, idx>>
                   ELSE /\ num' = num + 1
                        /\ IF LimitExceeded(limit, num + 1)
                           THEN /\ pc' = "done"
                                /\ outcome' = [how |-> "return",
                                               value |-> None]
                                /\ UNCHANGED <<yielded, idx>>
                           ELSE /\ pc' = AfterYield
                                /\ yielded' = Append(yielded, r.obj)
                                /\ idx' = idx + 1
                                /\ UNCHANGED outcome
                /\ UNCHANGED page
       ELSE /\ page' = page + 1
            /\ IF PastLastPage(page + 1, total_pages)
               THEN /\ pc' = "done"
                    /\ outcome' = [how |-> "return", value |-> None]
               ELSE /\ pc' = "fetch"
                    /\ UNCHANGED outcome
            /\ UNCHANGED <<res, num, yielded, idx>>
    /\ UNCHANGED <<kind, default_params, view, limit, total_pages, resumes,
                   abandoned, inflight, requests, responses>>
    /\ UNCHANGED normVars /\ UNCHANGED call

PagNext == Resume \/ Abandon \/ Fetch \/ Respond \/ ForStep

Spec == PagInit /\ [][PagNext]_vars

(***************************************************************************)
(* One normalize(obj, container) call on inputs drawn from bounded sets.   *)
(* A sibling collection is a list of at most MaxSib objects with ids from  *)
(* Ids; an object's name tells its place in the list, so that two objects  *)
(* with the same id differ.                                                *)
(***************************************************************************)
Ids == {7, 8}
AppointmentIds == {1, 2}

SeqsUpTo(S, n) == UNION {[1..m -> S] : m \in 0..n}

SiblingLists ==
    { [i \in 1..Len(ids) |-> [id |-> ids[i], name |-> ToString(i)]] :
        ids \in SeqsUpTo(Ids, MaxSib) }

\* appointments carry an outcome_id: 7, 8, ... by place in the list
AppointmentLists ==
    { [i \in 1..Len(ids) |-> [id |-> ids[i], outcome_id |-> 6 + i]] :
        ids \in SeqsUpTo(AppointmentIds, MaxSib) }

\* the id-reference fields each kind's normalizer reads
IdFields(k) ==
    CASE k = "contacts" -> {"owner_id", "contact_status_id"}
      [] k = "sales_accounts" -> {"owner_id", "industry_type_id"}
      [] k = "deals" -> {"owner_id", "sales_account_id", "deal_stage_id"}
      [] k = "leads" -> {"owner_id", "lead_stage_id"}
      [] OTHER -> {"owner_id"}

\* the sibling collection each id field is resolved against, and the field
\* the resolved object is stored under
CollectionOf(f) ==
    CASE f = "owner_id" -> "users"
      [] f = "contact_status_id" -> "contact_status"
      [] f = "industry_type_id" -> "industry_types"
      [] f = "sales_account_id" -> "sales_accounts"
      [] f = "deal_stage_id" -> "deal_stages"
      [] f = "lead_stage_id" -> "lead_stages"

ResolvedField(f) ==
    CASE f = "owner_id" -> "owner"
      [] f = "contact_status_id" -> "contact_status"
      [] f = "industry_type_id" -> "industry_type"
      [] f = "sales_account_id" -> "sales_account"
      [] f = "deal_stage_id" -> "deal_stage"
      [] f = "lead_stage_id" -> "lead_stage"

\* the values tried for a key of obj or of container
ValuesOf(key) ==
    CASE key = "appointment_ids" -> SeqsUpTo(AppointmentIds, MaxSib)
      [] key = "appointments" -> AppointmentLists
      [] key \in {"users", "contact_status", "industry_types", "sales_accounts",
                  "deal_stages", "lead_stages", "outcomes"} -> SiblingLists
      [] OTHER -> Ids

\* the mappings with keys among `keys`, each key with one of its values
RECURSIVE Dicts(_)
Dicts(keys) ==
    IF keys = {} THEN {EmptyDict}
    ELSE LET k == CHOOSE x \in keys : TRUE
             rest == Dicts(keys \ {k})
         IN  rest \cup {SetItem(d, k, v) : d \in rest, v \in ValuesOf(k)}

NormObjs(k) ==
    { SetItem(o, "id", 1) :
        o \in Dicts(IdFields(k) \cup
                      (IF k = "contacts" THEN {"appointment_ids"} ELSE {})) }

NormContainers(k) ==
    Dicts({CollectionOf(f) : f \in IdFields(k)} \cup
            (IF k = "contacts" THEN {"appointments", "outcomes"} ELSE {}))

NormInit ==
    /\ kind \in NormalizingKinds \cup {"tasks"}
    /\ default_params = ClassDefaultParams(kind)
    /\ nobj \in NormObjs(kind)
    /\ ncontainer \in NormContainers(kind)
    /\ nstate = "ready"
    /\ call = [op |-> "normalize", obj |-> nobj, container |-> ncontainer]
    /\ outcome = Running
    /\ view = EmptyDict
    /\ limit = None
    /\ pc = "unused"
    /\ page = 0
    /\ num = 0
    /\ total_pages = 0
    /\ res = EmptyDict
    /\ idx = 0
    /\ yielded = <<>>
    /\ resumes = 0
    /\ abandoned = FALSE
    /\ inflight = 0
    /\ requests = <<>>
    /\ responses = <<>>

\* self._normalize(obj=nobj, container=ncontainer)
Normalize ==
    /\ nstate = "ready"
    /\ LET r == normalize(kind, nobj, ncontainer)
       IN  /\ nobj' = r.obj
           /\ ncontainer' = r.container
           /\ nstate' = IF r.raised = "none" THEN "returned" ELSE r.raised
           /\ outcome' = IF r.raised = "none"
                         THEN [how |-> "return", value |-> None]
                         ELSE [how |-> "raise", value |-> PyStr(r.raised)]
    /\ UNCHANGED <<kind, default_params, call, requests, responses>>
    /\ UNCHANGED pagVars

NormNext == Normalize

SpecNorm == NormInit /\ [][NormNext]_vars

(***************************************************************************)
(* The client operations.  Each is one _request_generic call, whose        *)
(* request leaves (CallOp) and is answered (Answer), apart from the forget *)
(* of SalesActivities, Tasks and Notes, which returns at once.             *)
(***************************************************************************)
MaxCalls == 2        \* operations called on one client in a behaviour

\* the value a call returns when it decodes a body the model does not read
Decoded == [type |-> "decoded"]
\* the class object NotImplementedError
NotImplementedErrorClass == [type |-> "type", v |-> "NotImplementedError"]

NoRequest == [method |-> "none"]

\* what an operation does up to the transport call: the request it sends,
\* or, when it sends none, the value it returns
Sends(rq) == [sends |-> TRUE, request |-> rq, value |-> None]
ReturnsAtOnce(v) == [sends |-> FALSE, request |-> NoRequest, value |-> v]

\* APIBase.get_views / _get_views
get_views(k, defaults) ==
    Sends(request_generic(defaults, "GET", <<k, "filters">>, None, None))

\* APIBase.get / _get_by_id
get(k, defaults, id) ==
    Sends(request_generic(defaults, "GET", <<k, ToString(id)>>, None, None))

\* APIBase.create
create(k, defaults, data) ==
    Sends(request_generic(defaults, "POST", <<k>>, None,
                          (resource_type_singular(k) :> data)))

\* APIBase.update
update(k, defaults, id, data) ==
    Sends(request_generic(defaults, "PUT", <<k, ToString(id)>>, None,
                          (resource_type_singular(k) :> data)))

\* APIBase.delete
delete(k, defaults, id) ==
    Sends(request_generic(defaults, "DELETE", <<k, ToString(id)>>, None, None))

\* APIBase.forget, and its overrides in SalesActivities, Tasks and Notes,
\* which `return NotImplementedError`
forget(k, defaults, id) ==
    IF k \in {"sales_activities", "tasks", "notes"}
    THEN ReturnsAtOnce(NotImplementedErrorClass)
    ELSE Sends(request_generic(defaults, "DELETE",
                               <<k, ToString(id), "forget">>, None, None))

\* APIBase.bulk_delete, and its override in Accounts, whose path is the
\* literal '/accounts/bulk_destroy'
bulk_delete(k, defaults, ids, delete_associated_contacts_deals) ==
    IF k = "sales_accounts"
    THEN Sends(request_generic(defaults, "POST",
                 <<"accounts", "bulk_destroy">>, None,
                 [selected_ids |-> ids,
                  delete_associated_contacts_deals |->
                      delete_associated_contacts_deals]))
    ELSE Sends(request_generic(defaults, "POST", <<k, "bulk_destroy">>, None,
                 [selected_ids |-> ids]))

\* Contacts.get_activities and Contacts.get_appointments: the path names
\* contacts literally
get_activities(defaults, id) ==
    Sends(request_generic(defaults, "GET",
                          <<"contacts", ToString(id), "activities">>, None,
                          None))

get_appointments(defaults, id) ==
    Sends(request_generic(defaults, "GET",
                          <<"contacts", ToString(id), "appointments">>, None,
                          None))

\* Tasks.done: self.update(id, {"status": 1})
done(k, defaults, id) == update(k, defaults, id, [status |-> 1])

\* Configuration._get(name): requests.get(url, headers) with neither query
\* parameters nor a body; name is the selector path after /selector/
Configuration_get(name) ==
    Sends([method |-> "GET", path |-> <<"selector">> \o name,
           params |-> None, json |-> None])

\* the Configuration accessors, by the selector name each passes to _get
SelectorName(c) ==
    CASE c.op = "deal_pipeline_stages" ->
            <<"deal_pipelines", ToString(c.id), "deal_stages">>
      [] c.op = "sales_activity_outcomes" ->
            <<"sales_activity_types", ToString(c.id),
              "sales_activity_outcomes">>
      [] OTHER -> <<c.op>>

ConfigurationCalls ==
    {[op |-> o] : o \in {"owners", "deal_stages", "currencies", "deal_reasons",
                         "deal_types", "deal_pipelines",
                         "sales_activity_types"}}
    \cup {[op |-> o, id |-> i] :
            o \in {"deal_pipeline_stages", "sales_activity_outcomes"},
            i \in Ids}

\* APIBase._get_generic(path, params)
get_generic(defaults, path, params) ==
    Sends(request_generic(defaults, "GET", path, params, None))

IdLists == {<<7>>, <<7, 8>>}
SomeData == [name |-> "x"]

\* the objects the facade holds: the resource clients and the configuration
Clients == Kinds \cup {"configuration"}

\* the calls tried on a client of kind k; bulk_delete takes its flag on
\* Accounts only
ResourceCalls(k) ==
    {[op |-> "get_views"]}
    \cup {[op |-> o, id |-> i] : o \in {"get", "delete", "forget"}, i \in Ids}
    \cup {[op |-> "create", data |-> SomeData]}
    \cup {[op |-> "update", id |-> i, data |-> SomeData] : i \in Ids}
    \cup {[op |-> "bulk_delete", ids |-> l, flag |-> b] :
            l \in IdLists,
            b \in IF k = "sales_accounts" THEN BOOLEAN ELSE {FALSE}}
    \cup {[op |-> o, id |-> i] :
            o \in IF k = "contacts"
                  THEN {"get_activities", "get_appointments"}
                  ELSE IF k = "tasks" THEN {"done"} ELSE {},
            i \in Ids}

Calls(k) == IF k = "configuration" THEN ConfigurationCalls ELSE ResourceCalls(k)

Effect(k, defaults, c) ==
    CASE c.op = "get_views" -> get_views(k, defaults)
      [] c.op = "get" -> get(k, defaults, c.id)
      [] c.op = "create" -> create(k, defaults, c.data)
      [] c.op = "update" -> update(k, defaults, c.id, c.data)
      [] c.op = "delete" -> delete(k, defaults, c.id)
      [] c.op = "forget" -> forget(k, defaults, c.id)
      [] c.op = "bulk_delete" -> bulk_delete(k, defaults, c.ids, c.flag)
      [] c.op = "get_generic" -> get_generic(defaults, c.path, c.params)
      [] c.op = "get_activities" -> get_activities(defaults, c.id)
      [] c.op = "get_appointments" -> get_appointments(defaults, c.id)
      [] c.op = "done" -> done(k, defaults, c.id)
      [] OTHER -> Configuration_get(SelectorName(c))

\* what a call returns once the transport answered 2xx: get unwraps the
\* singular key of the body (here a bare record) and normalizes it
Returned(k, c) ==
    IF c.op = "get"
    THEN normalize(k, [id |-> c.id],
                   (resource_type_singular(k) :> [id |-> c.id])).obj
    ELSE Decoded

OpInitCommon(clients) ==
    /\ kind \in clients
    /\ default_params = ClassDefaultParams(kind)
    /\ requests = <<>>
    /\ responses = <<>>
    /\ inflight = 0
    /\ outcome = Running
    /\ view = EmptyDict
    /\ limit = None
    /\ pc = "unused"
    /\ page = 0
    /\ num = 0
    /\ total_pages = 0
    /\ res = EmptyDict
    /\ idx = 0
    /\ yielded = <<>>
    /\ resumes = 0
    /\ abandoned = FALSE
    /\ nobj = EmptyDict
    /\ ncontainer = EmptyDict
    /\ nstate = "unused"

OpInit ==
    /\ OpInitCommon(Clients)
    /\ call = [op |-> "none"]

Start(c) ==
    /\ inflight = 0
    /\ call' = c
    /\ LET e == Effect(kind, default_params, c)
       IN  IF e.sends
           THEN /\ requests' = Append(requests, e.request)
                /\ inflight' = 1
                /\ outcome' = Running
           ELSE /\ outcome' = [how |-> "return", value |-> e.value]
                /\ UNCHANGED <<requests, inflight>>
    /\ UNCHANGED <<kind, default_params, view, limit, pc, page, num,
                   total_pages, res, idx, yielded, resumes, abandoned,
                   responses>>
    /\ UNCHANGED normVars

\* a public operation is called on the client
CallOp ==
    /\ Len(requests) < MaxCalls
    /\ \E c \in Calls(kind) : Start(c)

\* lines 108-119: the transport answers the request in flight
Answer ==
    /\ inflight = 1
    /\ pc = "unused"
    /\ \E status \in Statuses, decodable \in BOOLEAN :
          /\ responses' = Append(responses, status)
          /\ outcome' = IF ResponseError(status, decodable) # "none"
                        THEN [how |-> "raise",
                              value |-> PyStr(ResponseError(status, decodable))]
                        ELSE [how |-> "return", value |-> Returned(kind, call)]
    /\ inflight' = 0
    /\ UNCHANGED <<kind, default_params, view, limit, pc, page, num,
                   total_pages, res, idx, yielded, resumes, abandoned,
                   requests, call>>
    /\ UNCHANGED normVars

OpNext == CallOp \/ Answer

SpecOps == OpInit /\ [][OpNext]_vars

(***************************************************************************)
(* One _get_generic call with per-call query parameters drawn from a       *)
(* bounded set, on a client with its class's default parameters.           *)
(***************************************************************************)
ParamKeys == {"sort", "page", "q"}
ParamValues == {None, PyBool(TRUE), PyBool(FALSE), PyInt(1), PyStr("asc")}
ParamArgs == {None} \cup UNION {[K -> ParamValues] : K \in SUBSET ParamKeys}

ParamInit ==
    /\ OpInitCommon(Kinds)
    /\ \E ps \in ParamArgs :
          call = [op |-> "get_generic", path |-> <<kind, "filters">>,
                  params |-> ps]

\* self._get_generic(path, params): the request leaves
RequestGeneric ==
    /\ requests = <<>>
    /\ call.op = "get_generic"
    /\ Start(call)

ParamNext == RequestGeneric \/ Answer

SpecParams == ParamInit /\ [][ParamNext]_vars

(***************************************************************************)
(* Vocabulary of the pagination claims.                                    *)
(***************************************************************************)
IdsOf(recs) == [i \in 1..Len(recs) |-> recs[i].id]

\* the records of the view's pages 1..n, in page order
RecordsUpTo(n) == Concat(SubSeq(view.pages, 1, n))
ViewRecords == RecordsUpTo(Len(view.pages))

\* the page numbers of the requests issued so far
RequestedPages == [i \in 1..Len(requests) |-> requests[i].params.page.v]

IsViewGet(rq) ==
    rq.method = "GET" /\ rq.path = <<kind, "view", ToString(view.id)>>

\* each yielded record is the view's record at that place, fields added only
YieldedArePrefixOf(recs) ==
    /\ Len(yielded) <= Len(recs)
    /\ \A i \in 1..Len(yielded) :
          \A f \in DOMAIN recs[i] :
              f \in DOMAIN yielded[i] /\ yielded[i][f] = recs[i][f]

Non2xx(status) == status < 200 \/ status > 299
\* a fetch got a non-2xx answer, or a body that could not be decoded
SomeFetchFailed ==
    \/ \E i \in 1..Len(responses) : Non2xx(responses[i])
    \/ /\ outcome.how = "raise"
       /\ outcome.value \in {PyStr("HTTPError"), PyStr("JSONDecodeError")}

Ended == pc \in {"done", "raised"}

\* every page of the view holds s records
UniformPages(s) == \A p \in 1..Len(view.pages) : Len(view.pages[p]) = s
CeilDiv(a, b) == (a + b - 1) \div b
MinOf(a, b) == IF a <= b THEN a ELSE b

(***************************************************************************)
(* C1.  With no limit and every fetch answered 2xx, get_all ends by        *)
(* returning, after GETs for exactly the pages 1..max(1, T) in order, and  *)
(* returns every record of those pages in order.                           *)
(***************************************************************************)
C1_GetAllReturnsEveryPage ==
    (limit = None /\ Ended /\ ~SomeFetchFailed) =>
        /\ pc = "done"
        /\ RequestedPages = [i \in 1..Max(1, view.T) |-> i]
        /\ \A i \in 1..Len(requests) : IsViewGet(requests[i])
        /\ Len(yielded) = Len(ViewRecords)
        /\ YieldedArePrefixOf(ViewRecords)

\* the same, for the views on which no normalize call raises
C1_ExceptWhenNormalizeRaises ==
    (limit = None /\ Ended /\ ~SomeFetchFailed /\ outcome.how # "raise") =>
        /\ pc = "done"
        /\ RequestedPages = [i \in 1..Max(1, view.T) |-> i]
        /\ \A i \in 1..Len(requests) : IsViewGet(requests[i])
        /\ Len(yielded) = Len(ViewRecords)
        /\ YieldedArePrefixOf(ViewRecords)

(***************************************************************************)
(* C2.  With a limit L >= 0 the generator never yields more than L         *)
(* records, and when it ends normally it has yielded exactly the first     *)
(* min(L, N) records of the view.                                          *)
(***************************************************************************)
C2_LimitYieldsMin ==
    limit # None =>
        /\ Len(yielded) <= limit.v
        /\ YieldedArePrefixOf(ViewRecords)
        /\ pc = "done" => Len(yielded) = MinOf(limit.v, Len(ViewRecords))

\* the same for L >= 1
C2_PositiveLimitYieldsMin ==
    (limit # None /\ limit.v >= 1) =>
        /\ Len(yielded) <= limit.v
        /\ YieldedArePrefixOf(ViewRecords)
        /\ pc = "done" => Len(yielded) = MinOf(limit.v, Len(ViewRecords))

(***************************************************************************)
(* C3.  With a limit L >= 1 on a view whose pages hold s >= 1 records      *)
(* each, no more than ceil(L / s) page fetches are made.                   *)
(***************************************************************************)
C3_FetchesAtMostCeil ==
    \A s \in 1..MaxPerPage :
        (limit # None /\ limit.v >= 1 /\ UniformPages(s)) =>
            Len(requests) <= CeilDiv(limit.v, s)

(***************************************************************************)
(* C3, amended.  With a limit L >= 1 on a view whose pages hold s >= 1     *)
(* records each, no more than floor(L / s) + 1 page fetches are made: the  *)
(* limit is noticed on record L + 1, so when s divides L the page after    *)
(* the one holding record L is fetched too.                                *)
(***************************************************************************)
C3_FetchesAtMostFloorPlusOne ==
    \A s \in 1..MaxPerPage :
        (limit # None /\ limit.v >= 1 /\ UniformPages(s)) =>
            Len(requests) <= (limit.v \div s) + 1

\* a limit of 2 on pages of 2: both records yielded, page 2 fetched, then
\* the limit is noticed on its first record
C3_Witness ==
    /\ limit = PyInt(2) /\ UniformPages(2) /\ view.T = 3
    /\ pc = "done" /\ Len(yielded) = 2 /\ Len(requests) = 2

(***************************************************************************)
(* C4.  Once a page fetch is answered with a non-2xx status the generator  *)
(* has ended by raising: that answer is the last one, no request follows   *)
(* it, and nothing of the failed page or a later one was yielded.          *)
(***************************************************************************)
C4_FailedFetchEndsSequence ==
    \A k \in 1..Len(responses) :
        Non2xx(responses[k]) =>
            /\ k = Len(responses)
            /\ Len(requests) = k
            /\ inflight = 0
            /\ pc = "raised"
            /\ outcome.how = "raise"
            /\ Len(yielded) <= Len(RecordsUpTo(k - 1))
            /\ YieldedArePrefixOf(RecordsUpTo(k - 1))

\* the same for the answers raise_for_status raises on (4xx and 5xx)
C4_ErrorStatusEndsSequence ==
    \A k \in 1..Len(responses) :
        (responses[k] >= 400 /\ responses[k] < 600) =>
            /\ k = Len(responses)
            /\ Len(requests) = k
            /\ inflight = 0
            /\ pc = "raised"
            /\ outcome = [how |-> "raise", value |-> PyStr("HTTPError")]
            /\ Len(yielded) <= Len(RecordsUpTo(k - 1))
            /\ YieldedArePrefixOf(RecordsUpTo(k - 1))

(***************************************************************************)
(* C10.  The generator is lazy and strictly sequential: nothing is         *)
(* requested before the first next(); a request leaves only while the      *)
(* caller's latest next() is being served, after every record of the       *)
(* earlier pages was yielded and resumed; at most one request is in        *)
(* flight; a dropped generator issues nothing more.                        *)
(***************************************************************************)
C10_LazySequential ==
    /\ [](inflight \in {0, 1})
    /\ [](resumes = 0 => requests = <<>>)
    /\ [][requests' # requests =>
            /\ ~abandoned
            /\ inflight = 0
            /\ resumes = Len(yielded) + 1
            /\ IdsOf(yielded) = IdsOf(RecordsUpTo(Len(requests)))
            /\ requests' = Append(requests, requests'[Len(requests')])
            /\ requests'[Len(requests')].params.page.v = Len(requests) + 1]_vars
    /\ [][abandoned => (requests' = requests /\ yielded' = yielded
                        /\ abandoned')]_vars

\* the second page is being fetched after page 1's two records were taken
C10_Witness ==
    /\ pc = "wait" /\ Len(requests) = 2 /\ Len(yielded) = 2 /\ resumes = 3

\* a generator dropped after its first record, one page fetched
C10_AbandonedWitness ==
    abandoned /\ Len(yielded) = 1 /\ Len(requests) = 1 /\ view.T >= 2

(***************************************************************************)
(* Vocabulary of the normalization claims.  call holds the arguments as    *)
(* they were passed, nobj and ncontainer what the call left of them.       *)
(***************************************************************************)
NormalizeEnded == call.op = "normalize" /\ nstate # "ready"

\* the collection a field is looked up in: the container's, or empty
GivenCollection(f) ==
    IF CollectionOf(f) \in DOMAIN call.container
    THEN call.container[CollectionOf(f)]
    ELSE <<>>

\* the first element with that id in collection order, None without one
FirstWithId(coll, id) ==
    IF \E i \in 1..Len(coll) : coll[i].id = id
    THEN coll[CHOOSE i \in 1..Len(coll) :
                 /\ coll[i].id = id
                 /\ \A j \in 1..(i - 1) : coll[j].id # id]
    ELSE None

(***************************************************************************)
(* C5.  For Contacts, Accounts, Deals and Leads, normalize never raises,   *)
(* whatever sibling collection is missing or id unmatched, and leaves each *)
(* unresolved reference as None.                                           *)
(***************************************************************************)
C5_NormalizeNeverRaises ==
    (NormalizeEnded /\ kind \in NormalizingKinds) =>
        /\ nstate = "returned"
        /\ \A f \in IdFields(kind) \cap DOMAIN call.obj :
              FirstWithId(GivenCollection(f), call.obj[f]) = None =>
                  /\ ResolvedField(f) \in DOMAIN nobj
                  /\ nobj[ResolvedField(f)] = None

\* the same apart from the two raising paths: a lead with lead_stage_id and
\* no lead_stages, a contact with an appointment id that has no appointment
C5_ExceptKnownRaises ==
    (/\ NormalizeEnded /\ kind \in NormalizingKinds
     /\ ~(kind = "leads" /\ "lead_stage_id" \in DOMAIN call.obj
            /\ "lead_stages" \notin DOMAIN call.container)
     /\ ~(/\ kind = "contacts" /\ "appointment_ids" \in DOMAIN call.obj
          /\ \E i \in 1..Len(call.obj.appointment_ids) :
                FirstWithId(IF "appointments" \in DOMAIN call.container
                            THEN call.container.appointments ELSE <<>>,
                            call.obj.appointment_ids[i]) = None)) =>
        /\ nstate = "returned"
        /\ \A f \in IdFields(kind) \cap DOMAIN call.obj :
              FirstWithId(GivenCollection(f), call.obj[f]) = None =>
                  /\ ResolvedField(f) \in DOMAIN nobj
                  /\ nobj[ResolvedField(f)] = None

(***************************************************************************)
(* C9.  For Contacts, Accounts, Deals and Leads, after normalize every id  *)
(* field the record has is resolved to the first element with that id of   *)
(* its sibling collection (None without a match or without the            *)
(* collection), and a record lacking the id field gets no resolved field.  *)
(***************************************************************************)
C9_ReferencesResolved ==
    (NormalizeEnded /\ kind \in NormalizingKinds) =>
        \A f \in IdFields(kind) :
            IF f \in DOMAIN call.obj
            THEN /\ ResolvedField(f) \in DOMAIN nobj
                 /\ nobj[ResolvedField(f)] =
                        FirstWithId(GivenCollection(f), call.obj[f])
            ELSE ResolvedField(f) \notin DOMAIN nobj

\* the same apart from a lead with lead_stage_id and no lead_stages
C9_ExceptLeadWithoutStages ==
    (/\ NormalizeEnded /\ kind \in NormalizingKinds
     /\ ~(kind = "leads" /\ "lead_stage_id" \in DOMAIN call.obj
            /\ "lead_stages" \notin DOMAIN call.container)) =>
        \A f \in IdFields(kind) :
            IF f \in DOMAIN call.obj
            THEN /\ ResolvedField(f) \in DOMAIN nobj
                 /\ nobj[ResolvedField(f)] =
                        FirstWithId(GivenCollection(f), call.obj[f])
            ELSE ResolvedField(f) \notin DOMAIN nobj

(***************************************************************************)
(* C6.  forget on a Tasks, Notes or SalesActivities client raises          *)
(* NotImplementedError and issues no request; on the other kinds it issues *)
(* exactly one DELETE to /{resource}/{id}/forget.                          *)
(***************************************************************************)
C6_ForgetSignalsNotImplemented ==
    [][(inflight = 0 /\ call'.op = "forget") =>
          IF kind \in {"tasks", "notes", "sales_activities"}
          THEN /\ requests' = requests
               /\ outcome'.how = "raise"
               /\ outcome'.value = PyStr("NotImplementedError")
          ELSE /\ Len(requests') = Len(requests) + 1
               /\ SubSeq(requests', 1, Len(requests)) = requests
               /\ requests'[Len(requests')].method = "DELETE"
               /\ requests'[Len(requests')].path =
                      <<kind, ToString(call'.id), "forget">>]_vars

\* the part of C6 about the kinds that support forget
C6_SupportedKindsDelete ==
    [][(inflight = 0 /\ call'.op = "forget"
          /\ kind \notin {"tasks", "notes", "sales_activities"}) =>
          /\ Len(requests') = Len(requests) + 1
          /\ SubSeq(requests', 1, Len(requests)) = requests
          /\ requests'[Len(requests')].method = "DELETE"
          /\ requests'[Len(requests')].path =
                 <<kind, ToString(call'.id), "forget">>]_vars

(***************************************************************************)
(* C7.  bulk_delete(ids) issues one POST to /{resource}/bulk_destroy,      *)
(* {resource} being the segment the client's other calls use, with body    *)
(* {selected_ids: ids}, to which Accounts adds                             *)
(* delete_associated_contacts_deals.                                       *)
(***************************************************************************)
C7_BulkDeleteUsesResourceSegment ==
    call.op = "bulk_delete" =>
        LET rq == requests[Len(requests)]
        IN  /\ Len(requests) = Len(responses) + inflight
            /\ rq.method = "POST"
            /\ rq.path = <<kind, "bulk_destroy">>
            /\ \A i \in 1..Len(requests) : requests[i].path[1] = rq.path[1]
            /\ rq.json.selected_ids = call.ids
            /\ DOMAIN rq.json =
                   IF kind = "sales_accounts"
                   THEN {"selected_ids", "delete_associated_contacts_deals"}
                   ELSE {"selected_ids"}

\* the same for every kind but Accounts
C7_ExceptAccounts ==
    (call.op = "bulk_delete" /\ kind # "sales_accounts") =>
        LET rq == requests[Len(requests)]
        IN  /\ Len(requests) = Len(responses) + inflight
            /\ rq.method = "POST"
            /\ rq.path = <<kind, "bulk_destroy">>
            /\ \A i \in 1..Len(requests) : requests[i].path[1] = rq.path[1]
            /\ rq.json = [selected_ids |-> call.ids]

(***************************************************************************)
(* Vocabulary of the query parameter claim: the per-call mapping, and the  *)
(* parameters of the request that left.                                    *)
(***************************************************************************)
PerCall == IF call.params = None THEN EmptyDict ELSE call.params
Outgoing == requests[1].params
BoolString(b) == PyStr(IF b THEN "true" ELSE "false")

ParamsCarried ==
    /\ DOMAIN Outgoing \subseteq DOMAIN default_params \cup DOMAIN PerCall
    /\ \A k \in DOMAIN PerCall :
          PerCall[k] # None =>
              /\ k \in DOMAIN Outgoing
              /\ Outgoing[k] = IF PerCall[k].type = "bool"
                               THEN BoolString(PerCall[k].v)
                               ELSE PerCall[k]
    /\ \A k \in DOMAIN default_params \ DOMAIN PerCall :
          k \in DOMAIN Outgoing /\ Outgoing[k] = default_params[k]

(***************************************************************************)
(* C8.  The outgoing parameters hold no key whose per-call value is null,  *)
(* also when the defaults hold that key; per-call booleans go out as       *)
(* "true"/"false", other per-call values unchanged and over the defaults;  *)
(* defaults not given per-call go out as they are.                         *)
(***************************************************************************)
C8_NullKeysDropped ==
    (call.op = "get_generic" /\ requests # <<>>) =>
        /\ ParamsCarried
        /\ \A k \in DOMAIN PerCall :
              PerCall[k] = None => k \notin DOMAIN Outgoing

(***************************************************************************)
(* C8, amended.  A key whose per-call value is null goes out as the        *)
(* defaults have it: absent when the defaults lack it, with the default    *)
(* value when they hold it.  The rest as in C8.                            *)
(***************************************************************************)
C8_NullKeysFallBackToDefault ==
    (call.op = "get_generic" /\ requests # <<>>) =>
        /\ ParamsCarried
        /\ \A k \in DOMAIN PerCall :
              PerCall[k] = None =>
                  IF k \in DOMAIN default_params
                  THEN k \in DOMAIN Outgoing /\ Outgoing[k] = default_params[k]
                  ELSE k \notin DOMAIN Outgoing

\* a call on Contacts with sort=None, page=True, q=False: sort goes out
\* with its default, page and q as strings
C8_Witness ==
    /\ kind = "contacts" /\ requests # <<>>
    /\ call.op = "get_generic"
    /\ call.params = [sort |-> None, page |-> PyBool(TRUE), q |-> PyBool(FALSE)]
    /\ Outgoing.sort = PyStr("updated_at")
    /\ Outgoing.page = PyStr("true") /\ Outgoing.q = PyStr("false")

====
